---- MODULE Spec2Model ----
(***************************************************************************)
(* Model of main.py: the single-pass log timing extractor get_timing_info  *)
(* and the run-level aggregation loop of main.                             *)
(*                                                                         *)
(* Strings are sequences of tokens (a token stands for a run of            *)
(* characters); startswith, "in" and strip are computed on token           *)
(* sequences.  Timestamps and durations are integers (one unit = one tick  *)
(* of the log clock).  Python's None is the empty tuple and a present      *)
(* value v is the one-element tuple <<v>>.                                 *)
(***************************************************************************)
EXTENDS Integers, Sequences, FiniteSets, TLC

VARIABLES known_codeql_commands, lines, frame, pc, exc,
          log_files, file_idx, totals, main_pc, main_exc, printed

vars == <<known_codeql_commands, lines, frame, pc, exc,
          log_files, file_idx, totals, main_pc, main_exc, printed>>

gtiVars == <<lines, frame, pc, exc>>
mainVars == <<log_files, file_idx, totals, main_pc, main_exc, printed>>

(* ---------------------------- bounds ---------------------------------- *)
MaxLen == 4
MaxT == 2
MaxFiles == 3

(* ------------------------- option values ------------------------------ *)
None == <<>>
Some(v) == <<v>>
Val(o) == o[1]

(* ------------------------- string helpers ----------------------------- *)
StartsWith(l, p) == Len(l) >= Len(p) /\ SubSeq(l, 1, Len(p)) = p

Contains(l, p) == \E i \in 1..(Len(l) - Len(p) + 1) : SubSeq(l, i, i + Len(p) - 1) = p

Whitespace == {" ", "\n"}

RECURSIVE LStrip(_)
LStrip(s) == IF s # <<>> /\ Head(s) \in Whitespace THEN LStrip(Tail(s)) ELSE s

RECURSIVE RStrip(_)
RStrip(s) == IF s # <<>> /\ s[Len(s)] \in Whitespace THEN RStrip(SubSeq(s, 1, Len(s) - 1)) ELSE s

Strip(s) == RStrip(LStrip(s))

(* ------------------------- marker literals ---------------------------- *)
JobStartLiteral == <<"##[debug]", "Starting: Set up job", "\n">>
ItemBeginPrefix == <<"Getting database for", " ">>
ToolPathPrefix == <<"[command]", "/opt/hostedtoolcache/CodeQL/">>
AnnouncePrefix == <<"##[debug]", "Running using CodeQL CLI:">>
JobEndLiteral == <<"##[debug]", "Finishing: Run query", "\n">>
CompleteJobLiteral == <<"##[debug]", "Finishing: Complete job", "\n">>

(* ------------------------- the vocabulary ----------------------------- *)
DatabaseUnbundle == <<"database", " ", "unbundle">>
DatabaseRunQueries == <<"database", " ", "run-queries">>
DatabaseInterpretResults == <<"database", " ", "interpret-results">>
BqrsInfo == <<"bqrs", " ", "info">>
ResolveQueries == <<"resolve", " ", "queries">>
ResolveMetadata == <<"resolve", " ", "metadata">>
ResolveDatabase == <<"resolve", " ", "database">>

KnownCodeqlCommands ==
  << DatabaseUnbundle, DatabaseRunQueries, DatabaseInterpretResults, BqrsInfo,
     ResolveQueries, ResolveMetadata, ResolveDatabase >>

\* a subcommand of the tool that the shipped vocabulary does not list
DatabaseFinalize == <<"database", " ", "finalize">>

ExtendedCodeqlCommands == Append(KnownCodeqlCommands, DatabaseFinalize)

CommandSet(vocab) == {vocab[i] : i \in 1..Len(vocab)}

(* extract_codeql_command: the first vocabulary entry c, in list order,   *)
(* with "codeql/codeql c" or "Running using CodeQL CLI: c" in the line;   *)
(* None stands for the raised exception.                                  *)
CommandMatches(l, c) ==
  \/ Contains(l, <<"codeql/codeql", " ">> \o c)
  \/ Contains(l, <<"Running using CodeQL CLI:", " ">> \o c)

ExtractCodeqlCommand_Fallback(l, vocab) ==
  LET hits == {i \in 1..Len(vocab) : CommandMatches(l, vocab[i])}
  IN IF hits = {} THEN Some(vocab[Len(vocab)])
     ELSE Some(vocab[CHOOSE i \in hits : \A j \in hits : i <= j])

ExtractCodeqlCommand(l, vocab) ==
  LET hits == {i \in 1..Len(vocab) : CommandMatches(l, vocab[i])}
  IN IF hits = {} THEN None
     ELSE Some(vocab[CHOOSE i \in hits : \A j \in hits : i <= j])

(* extract_timestamp: the instant in the untouched 26-character prefix    *)
ExtractTimestamp(line) == line.ts

(* ------------------------- line classification ------------------------ *)
Classify_BothEnds(l) ==
  IF l = JobStartLiteral THEN "JobStart"
  ELSE IF StartsWith(l, ItemBeginPrefix) THEN "ItemBegin"
  ELSE IF StartsWith(l, ToolPathPrefix) \/ StartsWith(l, AnnouncePrefix) THEN "ToolInvocation"
  ELSE IF l = JobEndLiteral \/ l = CompleteJobLiteral THEN "JobEnd"
  ELSE "Unmatched"

Classify_Contains(l) ==
  IF l = JobStartLiteral THEN "JobStart"
  ELSE IF Contains(l, ItemBeginPrefix) THEN "ItemBegin"
  ELSE IF StartsWith(l, ToolPathPrefix) \/ StartsWith(l, AnnouncePrefix) THEN "ToolInvocation"
  ELSE IF l = JobEndLiteral THEN "JobEnd"
  ELSE "Unmatched"

\* lines 69, 72, 92, 107: the if/elif chain on the payload
Classify(l) ==
  IF l = JobStartLiteral THEN "JobStart"
  ELSE IF StartsWith(l, ItemBeginPrefix) THEN "ItemBegin"
  ELSE IF StartsWith(l, ToolPathPrefix) \/ StartsWith(l, AnnouncePrefix) THEN "ToolInvocation"
  ELSE IF l = JobEndLiteral THEN "JobEnd"
  ELSE "Unmatched"

(* ------------------------- get_timing_info locals --------------------- *)
InitFrame(vocab) ==
  [ num_repos |-> 0,
    setup_time_s |-> 0,
    repo_time_s |-> 0,
    download_time_s |-> 0,
    codeql_command_times_s |-> [c \in CommandSet(vocab) |-> 0],
    starting_job |-> None,
    starting_repo |-> None,
    current_repo |-> None,
    starting_download |-> None,
    starting_command |-> None,
    current_command |-> None,
    job_time |-> None,
    repo_times |-> <<>> ]

Ok(f) == [frame |-> f, exc |-> "none"]
Raise(f, e) == [frame |-> f, exc |-> e]

TypeError == "TypeError"
UnrecognizedCommand == "Unable to extract codeql command"
NoRepos == "Unable to find any repos"
NoRepoTime == "Unable to find any repo time"

CloseCommand_NoAdd(f, t) ==
  IF f.current_command # None /\ f.starting_command # None
  THEN [f EXCEPT !.current_command = None,
                 !.starting_command = None]
  ELSE f

\* lines 84-87, 99-102, 110-113: close the open command span at t
CloseCommand(f, t) ==
  IF f.current_command # None /\ f.starting_command # None
  THEN [f EXCEPT !.codeql_command_times_s[Val(f.current_command)] = @ + (t - Val(f.starting_command)),
                 !.current_command = None,
                 !.starting_command = None]
  ELSE f

CloseRepo_NoTime(f, t) ==
  IF f.current_repo # None /\ f.starting_repo # None
  THEN [f EXCEPT !.repo_times = Append(@, <<Val(f.current_repo), t - Val(f.starting_repo)>>)]
  ELSE f

\* lines 75-77: close the open item span at t
CloseRepo(f, t) ==
  IF f.current_repo # None /\ f.starting_repo # None
  THEN [f EXCEPT !.repo_time_s = @ + (t - Val(f.starting_repo)),
                 !.repo_times = Append(@, <<Val(f.current_repo), t - Val(f.starting_repo)>>)]
  ELSE f

FoldSetup_Always(f, t) == [f EXCEPT !.setup_time_s = t - Val(f.starting_job)]

\* lines 81-82: the setup time, taken while it is still 0
FoldSetup(f, t) ==
  IF f.setup_time_s = 0
  THEN [f EXCEPT !.setup_time_s = t - Val(f.starting_job)]
  ELSE f

CloseLastRepo_NoAppend(f, t) == [f EXCEPT !.repo_time_s = @ + (t - Val(f.starting_repo))]

\* lines 115-116: close the last item span at the job end
CloseLastRepo(f, t) ==
  [f EXCEPT !.repo_time_s = @ + (t - Val(f.starting_repo)),
            !.repo_times = Append(@, <<Val(f.current_repo), t - Val(f.starting_repo)>>)]

CloseDownload_NoReset(f, t) ==
  IF f.starting_download # None
  THEN [f EXCEPT !.download_time_s = @ + (t - Val(f.starting_download))]
  ELSE f

\* lines 95-97: the download ends at the first tool invocation of the item
CloseDownload(f, t) ==
  IF f.starting_download # None
  THEN [f EXCEPT !.download_time_s = @ + (t - Val(f.starting_download)),
                 !.starting_download = None]
  ELSE f

\* lines 69-70
OnJobStart(f, line) == Ok([f EXCEPT !.starting_job = Some(ExtractTimestamp(line))])

OnItemBegin_SetupGuarded(f, line) ==
  LET t == ExtractTimestamp(line)
      l == line.payload
      f1 == CloseRepo(f, t)
      f2 == [f1 EXCEPT !.current_repo = Some(Strip(SubSeq(l, Len(ItemBeginPrefix) + 1, Len(l)))),
                       !.starting_repo = Some(t)]
      f3 == IF f2.starting_job = None THEN f2 ELSE FoldSetup(f2, t)
      f4 == CloseCommand(f3, t)
  IN Ok([f4 EXCEPT !.starting_download = Some(t),
                   !.num_repos = @ + 1])

\* lines 72-90
OnItemBegin(f, line) ==
  LET t == ExtractTimestamp(line)
      l == line.payload
      f1 == CloseRepo(f, t)
      f2 == [f1 EXCEPT !.current_repo = Some(Strip(SubSeq(l, Len(ItemBeginPrefix) + 1, Len(l)))),
                       !.starting_repo = Some(t)]
  IN IF f2.setup_time_s = 0 /\ f2.starting_job = None
     THEN Raise(f2, TypeError)
     ELSE LET f3 == FoldSetup(f2, t)
              f4 == CloseCommand(f3, t)
          IN Ok([f4 EXCEPT !.starting_download = Some(t),
                           !.num_repos = @ + 1])

OnToolInvocation_CloseAfter(f, line, vocab) ==
  LET t == ExtractTimestamp(line)
      f1 == CloseDownload(f, t)
      c == ExtractCodeqlCommand(line.payload, vocab)
  IN IF c = None
     THEN Raise(f1, UnrecognizedCommand)
     ELSE LET f2 == CloseCommand([f1 EXCEPT !.current_command = c], t)
          IN Ok([f2 EXCEPT !.current_command = c,
                           !.starting_command = Some(t)])

\* lines 92-105
OnToolInvocation(f, line, vocab) ==
  LET t == ExtractTimestamp(line)
      f1 == CloseDownload(f, t)
      f2 == CloseCommand(f1, t)
      c == ExtractCodeqlCommand(line.payload, vocab)
  IN IF c = None
     THEN Raise(f2, UnrecognizedCommand)
     ELSE Ok([f2 EXCEPT !.current_command = c,
                        !.starting_command = Some(t)])

OnJobEnd_Guarded(f, line) ==
  LET t == ExtractTimestamp(line)
      f1 == CloseCommand(f, t)
      f2 == IF f1.starting_repo = None THEN f1 ELSE CloseLastRepo(f1, t)
  IN IF f2.starting_job = None
     THEN Raise(f2, TypeError)
     ELSE Ok([f2 EXCEPT !.job_time = Some(t - Val(f2.starting_job))])

\* lines 107-117
OnJobEnd(f, line) ==
  LET t == ExtractTimestamp(line)
      f1 == CloseCommand(f, t)
  IN IF f1.starting_repo = None
     THEN Raise(f1, TypeError)
     ELSE LET f2 == CloseLastRepo(f1, t)
          IN IF f2.starting_job = None
             THEN Raise(f2, TypeError)
             ELSE Ok([f2 EXCEPT !.job_time = Some(t - Val(f2.starting_job))])

\* lines 67-117: one iteration of the loop over the lines of the file
ProcessLine(f, line, vocab) ==
  LET k == Classify(line.payload)
  IN CASE k = "JobStart" -> OnJobStart(f, line)
       [] k = "ItemBegin" -> OnItemBegin(f, line)
       [] k = "ToolInvocation" -> OnToolInvocation(f, line, vocab)
       [] k = "JobEnd" -> OnJobEnd(f, line)
       [] OTHER -> Ok(f)

AfterLoop_NoTimeCheck(f) == IF f.num_repos = 0 THEN NoRepos ELSE "none"

\* lines 119-124: the checks after the loop
AfterLoop(f) ==
  IF f.num_repos = 0 THEN NoRepos
  ELSE IF f.repo_time_s = 0 THEN NoRepoTime
  ELSE "none"

\* line 124: the returned tuple
ResultOf(f) ==
  [ num_repos |-> f.num_repos,
    setup_time_s |-> f.setup_time_s,
    repo_time_s |-> f.repo_time_s,
    download_time_s |-> f.download_time_s,
    codeql_command_times_s |-> f.codeql_command_times_s,
    job_time |-> f.job_time,
    repo_times |-> f.repo_times ]

(* ------------------------- the files read ----------------------------- *)
Line(t, l) == [ts |-> t, payload |-> l]

RepoA == <<"repoA">>
RepoB == <<"repoB">>

ItemBeginA == ItemBeginPrefix \o RepoA \o <<"\n">>
ItemBeginB == ItemBeginPrefix \o RepoB \o <<"\n">>
ToolRunQueries ==
  ToolPathPrefix \o <<"2.8.0/x64/", "codeql/codeql", " ">> \o DatabaseRunQueries \o <<" ", "--threads=2", "\n">>
ToolResolveQueries ==
  AnnouncePrefix \o <<" ">> \o ResolveQueries \o <<"\n">>
ToolFinalize ==
  ToolPathPrefix \o <<"2.8.0/x64/", "codeql/codeql", " ">> \o DatabaseFinalize \o <<"\n">>

Payloads ==
  { JobStartLiteral, ItemBeginA, ItemBeginB, ToolRunQueries, ToolResolveQueries,
    ToolFinalize, JobEndLiteral, CompleteJobLiteral }

\* the two-item log of the scenario, closed by the job-end line the code matches
Scenario ==
  << Line(0, JobStartLiteral), Line(2, ItemBeginA), Line(5, ToolRunQueries),
     Line(9, ItemBeginB), Line(10, ToolRunQueries), Line(15, JobEndLiteral) >>

\* a log whose clock steps backwards between lines
SkewedLog ==
  << Line(1, JobStartLiteral), Line(2, ItemBeginA), Line(1, ToolResolveQueries),
     Line(0, ItemBeginB), Line(1, JobEndLiteral) >>

\* lines that carry marker text without being markers
NoiseItem == <<"##[debug]", "Getting database for", " ", "repoA", "\n">>
NoiseCommand == <<"codeql", " ", "database", " ", "run-queries", " ", "...", "\n">>

\* a log with output lines between the markers
NoisyLog ==
  << Line(0, JobStartLiteral), Line(1, NoiseItem), Line(1, ItemBeginA),
     Line(2, NoiseCommand), Line(2, ToolRunQueries), Line(3, JobEndLiteral) >>

\* a log with two tool invocations in its first item and none in its second
RichLog ==
  << Line(0, JobStartLiteral), Line(1, ItemBeginA), Line(2, ToolRunQueries),
     Line(4, ToolResolveQueries), Line(5, ItemBeginB), Line(7, JobEndLiteral) >>

\* a log whose first item ends at the timestamp it began
ZeroItemLog ==
  << Line(0, JobStartLiteral), Line(0, ItemBeginA), Line(0, ItemBeginB),
     Line(1, ToolRunQueries), Line(2, JobEndLiteral) >>

ScriptedLogs == {Scenario, SkewedLog, NoisyLog, RichLog, ZeroItemLog}

IsPrefix(s, t) == Len(s) <= Len(t) /\ SubSeq(t, 1, Len(s)) = s

\* the log framework stamps the lines of a file in the order it writes them
Clock(ls) == IF ls = <<>> THEN 0 ELSE ls[Len(ls)].ts

\* the lines that may follow the lines read so far
NextLines(ls) ==
  (IF Len(ls) < MaxLen THEN {Line(t, l) : t \in Clock(ls)..MaxT, l \in Payloads} ELSE {})
  \cup {q[Len(ls) + 1] : q \in {q0 \in ScriptedLogs : Len(ls) < Len(q0) /\ IsPrefix(ls, q0)}}

(* ------------------------- get_timing_info ---------------------------- *)
\* lines 139-148
InitTotals(vocab) ==
  [ num_repos |-> 0, setup_time_s |-> 0, repo_time_s |-> 0, download_time_s |-> 0,
    codeql_command_times_s |-> [c \in CommandSet(vocab) |-> 0], job_time_s |-> 0,
    job_times |-> <<>>, repo_times |-> <<>> ]

Init ==
  /\ known_codeql_commands \in {KnownCodeqlCommands, ExtendedCodeqlCommands}
  /\ lines = <<>>
  /\ frame = InitFrame(known_codeql_commands)
  /\ pc = "reading"
  /\ exc = "none"
  /\ log_files = <<>>
  /\ file_idx = 0
  /\ totals = InitTotals(known_codeql_commands)
  /\ main_pc = "idle"
  /\ main_exc = "none"
  /\ printed = <<>>

\* the loop body applied to one line of the file
ReadLine(line) ==
  LET r == ProcessLine(frame, line, known_codeql_commands)
  IN /\ lines' = Append(lines, line)
     /\ frame' = r.frame
     /\ exc' = r.exc
     /\ pc' = IF r.exc = "none" THEN "reading" ELSE "raised"
     /\ UNCHANGED <<known_codeql_commands, mainVars>>

JobStartLine ==
  /\ pc = "reading"
  /\ \E line \in NextLines(lines) : Classify(line.payload) = "JobStart" /\ ReadLine(line)

ItemBeginLine ==
  /\ pc = "reading"
  /\ \E line \in NextLines(lines) : Classify(line.payload) = "ItemBegin" /\ ReadLine(line)

ToolInvocationLine ==
  /\ pc = "reading"
  /\ \E line \in NextLines(lines) : Classify(line.payload) = "ToolInvocation" /\ ReadLine(line)

JobEndLine ==
  /\ pc = "reading"
  /\ \E line \in NextLines(lines) : Classify(line.payload) = "JobEnd" /\ ReadLine(line)

UnmatchedLine ==
  /\ pc = "reading"
  /\ \E line \in NextLines(lines) : Classify(line.payload) = "Unmatched" /\ ReadLine(line)

\* end of the file: lines 119-124
EndOfFile ==
  /\ pc = "reading"
  /\ exc' = AfterLoop(frame)
  /\ pc' = IF AfterLoop(frame) = "none" THEN "returned" ELSE "raised"
  /\ UNCHANGED <<known_codeql_commands, lines, frame, mainVars>>

Next ==
  \/ JobStartLine
  \/ ItemBeginLine
  \/ ToolInvocationLine
  \/ JobEndLine
  \/ UnmatchedLine
  \/ EndOfFile

Spec == Init /\ [][Next]_vars

(* ------------------------- get_timing_info as a call ------------------ *)
RECURSIVE RunLines(_, _, _)
RunLines(f, ls, vocab) ==
  IF ls = <<>>
  THEN [frame |-> f, exc |-> AfterLoop(f)]
  ELSE LET r == ProcessLine(f, Head(ls), vocab)
       IN IF r.exc # "none" THEN r ELSE RunLines(r.frame, Tail(ls), vocab)

\* lines 46-124: the outcome of get_timing_info on a whole file
GetTimingInfo(file, vocab) ==
  LET r == RunLines(InitFrame(vocab), file, vocab)
  IN [exc |-> r.exc, result |-> ResultOf(r.frame)]

(* ------------------------- main --------------------------------------- *)
UnterminatedFile == << Line(0, JobStartLiteral), Line(0, ItemBeginA), Line(1, ItemBeginB) >>
ShortFile == << Line(0, JobStartLiteral), Line(1, ItemBeginB), Line(2, ToolResolveQueries), Line(4, JobEndLiteral) >>
FinalizeFile == << Line(0, JobStartLiteral), Line(1, ItemBeginA), Line(2, ToolFinalize), Line(3, JobEndLiteral) >>
EmptyTimeFile == << Line(1, JobStartLiteral), Line(1, ItemBeginA), Line(1, JobEndLiteral) >>
LateSetupFile == << Line(0, JobStartLiteral), Line(0, ItemBeginA), Line(1, ItemBeginB), Line(2, JobEndLiteral) >>

SampleFiles == { Scenario, ShortFile, LateSetupFile, FinalizeFile, UnterminatedFile, EmptyTimeFile }

RECURSIVE SeqsUpTo(_, _)
SeqsUpTo(S, n) ==
  IF n = 0 THEN {<<>>}
  ELSE LET shorter == SeqsUpTo(S, n - 1)
       IN shorter \cup {Append(q, x) : q \in {q0 \in shorter : Len(q0) = n - 1}, x \in S}

AddTimes_SetupOverwritten(tot, r) ==
  [tot EXCEPT !.num_repos = @ + r.num_repos,
              !.setup_time_s = r.setup_time_s,
              !.repo_time_s = @ + r.repo_time_s,
              !.download_time_s = @ + r.download_time_s,
              !.codeql_command_times_s = [c \in DOMAIN @ |-> @[c] + r.codeql_command_times_s[c]]]

\* lines 152-157: the additions made before the job time is added
AddTimes(tot, r) ==
  [tot EXCEPT !.num_repos = @ + r.num_repos,
              !.setup_time_s = @ + r.setup_time_s,
              !.repo_time_s = @ + r.repo_time_s,
              !.download_time_s = @ + r.download_time_s,
              !.codeql_command_times_s = [c \in DOMAIN @ |-> @[c] + r.codeql_command_times_s[c]]]

\* lines 158-160
AddJob(tot, r) ==
  [tot EXCEPT !.job_time_s = @ + Val(r.job_time),
              !.job_times = Append(@, Val(r.job_time)),
              !.repo_times = @ \o r.repo_times]

MainInit ==
  /\ known_codeql_commands \in {KnownCodeqlCommands, ExtendedCodeqlCommands}
  /\ lines = <<>>
  /\ frame = InitFrame(known_codeql_commands)
  /\ pc = "reading"
  /\ exc = "none"
  /\ log_files \in SeqsUpTo(SampleFiles, MaxFiles)
  /\ file_idx = 0
  /\ totals = InitTotals(known_codeql_commands)
  /\ main_pc = "loop"
  /\ main_exc = "none"
  /\ printed = <<>>

\* lines 150-160: one iteration whose call returns a complete result
FileReturns ==
  /\ main_pc = "loop"
  /\ file_idx < Len(log_files)
  /\ LET g == GetTimingInfo(log_files[file_idx + 1], known_codeql_commands)
     IN /\ g.exc = "none"
        /\ g.result.job_time # None
        /\ totals' = AddJob(AddTimes(totals, g.result), g.result)
  /\ file_idx' = file_idx + 1
  /\ UNCHANGED <<known_codeql_commands, gtiVars, log_files, main_pc, main_exc, printed>>

FileRaises_Skip ==
  /\ main_pc = "loop"
  /\ file_idx < Len(log_files)
  /\ GetTimingInfo(log_files[file_idx + 1], known_codeql_commands).exc # "none"
  /\ file_idx' = file_idx + 1
  /\ UNCHANGED <<known_codeql_commands, gtiVars, log_files, totals, main_pc, main_exc, printed>>

\* line 151: the call raises and the exception leaves main
FileRaises ==
  /\ main_pc = "loop"
  /\ file_idx < Len(log_files)
  /\ LET g == GetTimingInfo(log_files[file_idx + 1], known_codeql_commands)
     IN /\ g.exc # "none"
        /\ main_exc' = g.exc
  /\ main_pc' = "aborted"
  /\ UNCHANGED <<known_codeql_commands, gtiVars, log_files, file_idx, totals, printed>>

\* line 158: the call returned job_time None, job_time_s += None raises
JobTimeMissing ==
  /\ main_pc = "loop"
  /\ file_idx < Len(log_files)
  /\ LET g == GetTimingInfo(log_files[file_idx + 1], known_codeql_commands)
     IN /\ g.exc = "none"
        /\ g.result.job_time = None
        /\ totals' = AddTimes(totals, g.result)
  /\ main_exc' = TypeError
  /\ main_pc' = "aborted"
  /\ UNCHANGED <<known_codeql_commands, gtiVars, log_files, file_idx, printed>>

\* lines 164-170: the report; a quotient is kept as <<numerator, denominator>>
ReportLines(tot, vocab) ==
  << [label |-> "Number of repos", value |-> tot.num_repos, den |-> <<>>],
     [label |-> "Total time", value |-> tot.job_time_s, den |-> <<>>],
     [label |-> "Setup time", value |-> tot.setup_time_s, den |-> <<tot.num_repos>>],
     [label |-> "Repo time", value |-> tot.repo_time_s, den |-> <<tot.num_repos>>],
     [label |-> "Download time", value |-> tot.download_time_s, den |-> <<tot.num_repos, tot.repo_time_s>>] >>
  \o [i \in 1..Len(vocab) |->
       [label |-> "CodeQL command", value |-> tot.codeql_command_times_s[vocab[i]],
        den |-> <<tot.num_repos, tot.repo_time_s>>]]

DividesByZero(ln) == \E i \in 1..Len(ln.den) : ln.den[i] = 0

\* the lines printed before the first print whose argument divides by zero
Printable(ls) ==
  LET bad == {i \in 1..Len(ls) : DividesByZero(ls[i])}
  IN IF bad = {} THEN ls
     ELSE SubSeq(ls, 1, (CHOOSE i \in bad : \A j \in bad : i <= j) - 1)

Report ==
  /\ main_pc = "loop"
  /\ file_idx = Len(log_files)
  /\ LET ls == ReportLines(totals, known_codeql_commands)
     IN /\ printed' = Printable(ls)
        /\ main_pc' = IF Printable(ls) = ls THEN "done" ELSE "aborted"
        /\ main_exc' = IF Printable(ls) = ls THEN "none" ELSE "ZeroDivisionError"
  /\ UNCHANGED <<known_codeql_commands, gtiVars, log_files, file_idx, totals>>

MainNext ==
  \/ FileReturns
  \/ FileRaises
  \/ JobTimeMissing
  \/ Report

SpecMain == MainInit /\ [][MainNext]_vars

(* ======================= properties of the log read =================== *)
\* the marker a line of the modelled files carries
MarkerOf(l) ==
  CASE l = JobStartLiteral -> "JobStart"
    [] l \in {ItemBeginA, ItemBeginB} -> "ItemBegin"
    [] l \in {ToolRunQueries, ToolResolveQueries, ToolFinalize} -> "ToolInvocation"
    [] l = JobEndLiteral -> "JobEnd"
    [] OTHER -> "Unmatched"

\* the subcommand a tool-invocation line of the modelled files names
NamedCommand(l) ==
  CASE l = ToolRunQueries -> DatabaseRunQueries
    [] l = ToolResolveQueries -> ResolveQueries
    [] OTHER -> DatabaseFinalize

\* the identifier an item-begin line of the modelled files carries
NamedRepo(l) == IF l = ItemBeginA THEN RepoA ELSE RepoB

Idx(ls, k) == {i \in 1..Len(ls) : MarkerOf(ls[i].payload) = k}
Markers(ls) == {i \in 1..Len(ls) : MarkerOf(ls[i].payload) # "Unmatched"}

IsMarker(line) == MarkerOf(line.payload) # "Unmatched"
IsItemBegin(line) == MarkerOf(line.payload) = "ItemBegin"

\* one Job-start first, non-decreasing timestamps, at least one Item-begin,
\* tool invocations of the vocabulary, exactly one Job-end as the last marker
WellFormed(ls) ==
  LET ms == SelectSeq(ls, IsMarker)
  IN /\ Len(ms) >= 3
     /\ \A i \in 1..Len(ms) : (MarkerOf(ms[i].payload) = "JobStart") <=> (i = 1)
     /\ \A i \in 1..Len(ms) : (MarkerOf(ms[i].payload) = "JobEnd") <=> (i = Len(ms))
     /\ \E i \in 1..Len(ms) : MarkerOf(ms[i].payload) = "ItemBegin"
     /\ \A i \in 1..(Len(ms) - 1) : ms[i].ts <= ms[i + 1].ts
     /\ \A i \in 1..Len(ms) :
          MarkerOf(ms[i].payload) = "ToolInvocation"
            => NamedCommand(ms[i].payload) \in CommandSet(known_codeql_commands)

ItemLines(ls) == SelectSeq(ls, IsItemBegin)

RECURSIVE SumDurations(_)
SumDurations(rt) == IF rt = <<>> THEN 0 ELSE rt[1][2] + SumDurations(Tail(rt))

Finished == pc \in {"returned", "raised"}

(* C1: for a well-formed log with N Item-begin markers, when                *)
(* get_timing_info is done the item count is N and the per-item sequence    *)
(* has N entries whose identifiers are those of the Item-begin markers in   *)
(* order; the run ends in a return, or in the empty-result error when the   *)
(* total item time is zero.                                                 *)
C1_ItemCountAndSequence ==
  (Finished /\ WellFormed(lines)) =>
     LET items == ItemLines(lines)
     IN /\ frame.num_repos = Len(items)
        /\ Len(frame.repo_times) = Len(items)
        /\ \A i \in 1..Len(items) : frame.repo_times[i][1] = NamedRepo(items[i].payload)
        /\ \/ pc = "returned"
           \/ exc = NoRepoTime /\ frame.repo_time_s = 0

C1_Witness ==
  /\ pc = "returned"
  /\ WellFormed(lines)
  /\ Len(ItemLines(lines)) = 2
  /\ frame.repo_times[1][1] # frame.repo_times[2][1]

(* C2: after any prefix of any marker sequence the total item-processing    *)
(* time equals the sum of the durations in the per-item sequence.           *)
C2_ItemTimeIsSumOfDurations ==
  frame.repo_time_s = SumDurations(frame.repo_times)

C2_Witness ==
  /\ Len(frame.repo_times) >= 2
  /\ frame.repo_time_s # 0
  /\ frame.repo_times[1][2] < 0

(* C3: for a well-formed log the returned setup time plus total item time   *)
(* equals the total job time.                                               *)
C3_SetupPlusItemIsJob ==
  (pc = "returned" /\ WellFormed(lines)) =>
     frame.setup_time_s + frame.repo_time_s = Val(frame.job_time)

(* C4: a log that reaches end-of-file without a Job-end marker never makes  *)
(* get_timing_info return a result.                                         *)
C4_UnterminatedNeverReturns ==
  (pc = "returned") => (Idx(lines, "JobEnd") # {})

(* C5: a log whose first marker is a Tool-invocation never makes            *)
(* get_timing_info return a result, whatever follows.                       *)
FirstMarkerIsTool(ls) ==
  /\ Markers(ls) # {}
  /\ LET first == CHOOSE i \in Markers(ls) : \A j \in Markers(ls) : i <= j
     IN MarkerOf(ls[first].payload) = "ToolInvocation"

C5_ToolFirstNeverReturns ==
  FirstMarkerIsTool(lines) => (pc # "returned")

(* C6: once a Tool-invocation line has been read, either its subcommand is  *)
(* not in the vocabulary and get_timing_info has raised the                 *)
(* unrecognized-command error, or it is in the vocabulary and the open      *)
(* command is that subcommand.                                              *)
LastLine == lines[Len(lines)]

LastIsTool == lines # <<>> /\ MarkerOf(LastLine.payload) = "ToolInvocation"

C6_UnrecognizedCommand ==
  LastIsTool =>
     IF NamedCommand(LastLine.payload) \in CommandSet(known_codeql_commands)
     THEN /\ exc # UnrecognizedCommand
          /\ frame.current_command = Some(NamedCommand(LastLine.payload))
          /\ frame.starting_command = Some(LastLine.ts)
     ELSE /\ pc = "raised"
          /\ exc = UnrecognizedCommand

C6_Witness ==
  /\ LastIsTool
  /\ LastLine.payload = ToolFinalize
  /\ known_codeql_commands = ExtendedCodeqlCommands
  /\ frame.current_command = Some(DatabaseFinalize)
  /\ frame.num_repos >= 1

(* C7: get_timing_info never returns an item count of 0 or a total item     *)
(* time of 0.                                                               *)
C7_NoEmptyResult ==
  (pc = "returned") => (frame.num_repos # 0 /\ frame.repo_time_s # 0)

C7_Witness ==
  /\ pc = "raised"
  /\ exc = NoRepoTime
  /\ frame.num_repos >= 2
  /\ frame.job_time # None

(* C8 as stated: the scenario yields item count 2, durations                *)
(* [(repoA,7),(repoB,6)], download 4, run-queries 9, setup 7, job 15.       *)
ScenarioDone == lines = Scenario /\ Finished

C8_ScenarioAsStated ==
  ScenarioDone =>
     /\ pc = "returned"
     /\ frame.num_repos = 2
     /\ frame.repo_times = << <<RepoA, 7>>, <<RepoB, 6>> >>
     /\ frame.download_time_s = 4
     /\ frame.codeql_command_times_s[DatabaseRunQueries] = 9
     /\ frame.setup_time_s = 7
     /\ frame.job_time = Some(15)

(* C8 amended: the same scenario yields setup time 2 (the time from the     *)
(* Job-start to the first Item-begin), all other values as stated.          *)
C8_ScenarioAmended ==
  ScenarioDone =>
     /\ pc = "returned"
     /\ frame.num_repos = 2
     /\ frame.repo_times = << <<RepoA, 7>>, <<RepoB, 6>> >>
     /\ frame.download_time_s = 4
     /\ frame.codeql_command_times_s[DatabaseRunQueries] = 9
     /\ frame.setup_time_s = 2
     /\ frame.job_time = Some(15)

C8_Witness == ScenarioDone /\ pc = "returned" /\ frame.repo_time_s = 13

(* C9 as stated: a 'Finishing: Complete job' line read while an item is     *)
(* open sets the total job time and closes the last item, as a              *)
(* 'Finishing: Run query' line does.                                        *)
LastIsCompleteJob == lines # <<>> /\ LastLine.payload = CompleteJobLiteral

ReadsPayload(l) == Len(lines') = Len(lines) + 1 /\ lines'[Len(lines')].payload = l

FileResult(i) == GetTimingInfo(log_files[i], known_codeql_commands).result

RECURSIVE SumFrom(_, _, _)
SumFrom(i, n, v) == IF i > n THEN 0 ELSE v[i] + SumFrom(i + 1, n, v)

RECURSIVE ConcatFrom(_, _, _)
ConcatFrom(i, n, v) == IF i > n THEN <<>> ELSE v[i] \o ConcatFrom(i + 1, n, v)

RECURSIVE FoldFiles(_, _)
FoldFiles(tot, rs) ==
  IF rs = <<>> THEN tot ELSE FoldFiles(AddJob(AddTimes(tot, Head(rs)), Head(rs)), Tail(rs))

Orders(n) == {p \in [1..n -> 1..n] : \A i, j \in 1..n : p[i] = p[j] => i = j}

Scalars(tot) ==
  <<tot.num_repos, tot.setup_time_s, tot.repo_time_s, tot.download_time_s,
    tot.job_time_s, tot.codeql_command_times_s>>

C10_AggregationIsAdditive ==
  (main_exc # TypeError) =>
     LET n == file_idx
         R == [i \in 1..n |-> FileResult(i)]
     IN /\ totals.num_repos = SumFrom(1, n, [i \in 1..n |-> R[i].num_repos])
        /\ totals.setup_time_s = SumFrom(1, n, [i \in 1..n |-> R[i].setup_time_s])
        /\ totals.repo_time_s = SumFrom(1, n, [i \in 1..n |-> R[i].repo_time_s])
        /\ totals.download_time_s = SumFrom(1, n, [i \in 1..n |-> R[i].download_time_s])
        /\ totals.job_time_s = SumFrom(1, n, [i \in 1..n |-> Val(R[i].job_time)])
        /\ \A c \in CommandSet(known_codeql_commands) :
             totals.codeql_command_times_s[c] =
               SumFrom(1, n, [i \in 1..n |-> R[i].codeql_command_times_s[c]])
        /\ totals.repo_times = ConcatFrom(1, n, [i \in 1..n |-> R[i].repo_times])
        /\ \A p \in Orders(n) :
             Scalars(FoldFiles(InitTotals(known_codeql_commands), [i \in 1..n |-> R[p[i]]]))
               = Scalars(totals)

C10_Witness ==
  /\ main_pc = "done"
  /\ file_idx = 3
  /\ log_files[1] # log_files[2]
  /\ log_files[2] # log_files[3]
  /\ log_files[1] # log_files[3]
  /\ totals.setup_time_s > FileResult(3).setup_time_s

(* C11: when processing any log file of the run ends in an error (the call  *)
(* raises, or its result carries no job time and line 158 raises), no line  *)
(* of the report is ever printed.                                           *)
FileFails(i) ==
  LET g == GetTimingInfo(log_files[i], known_codeql_commands)
  IN g.exc # "none" \/ g.result.job_time = None

C11_NoPartialReport ==
  (\E i \in 1..Len(log_files) : FileFails(i)) => (printed = <<>> /\ main_pc # "done")

C11_Witness ==
  /\ main_pc = "aborted"
  /\ file_idx = 2
  /\ Len(log_files) = 3
  /\ FileFails(3)
  /\ totals.num_repos > 0
  /\ printed = <<>>

(* C12: in a log made of a Job-start followed by Item-begin markers, the    *)
(* setup time after every Item-begin is the timestamp of the first          *)
(* Item-begin minus the Job-start timestamp.                                *)
JobThenItems(ls) ==
  LET ms == SelectSeq(ls, IsMarker)
  IN /\ Len(ms) >= 2
     /\ MarkerOf(ms[1].payload) = "JobStart"
     /\ \A i \in 2..Len(ms) : MarkerOf(ms[i].payload) = "ItemBegin"
     /\ \A i \in 1..(Len(ms) - 1) : ms[i].ts <= ms[i + 1].ts

C12_SetupOnlyAtFirstItem ==
  (pc = "reading" /\ JobThenItems(lines)) =>
     LET ms == SelectSeq(lines, IsMarker)
     IN frame.setup_time_s = ms[2].ts - ms[1].ts

(* C13: on a well-formed log, and on every prefix of one, the download time *)
(* is the sum over the items with a Tool-invocation in their span of (the   *)
(* item's first Tool-invocation - its Item-begin); later Tool-invocations   *)
(* of the item and items without one add nothing.                           *)
WellFormedPrefix(ls) ==
  LET ms == SelectSeq(ls, IsMarker)
  IN /\ Len(ms) >= 1
     /\ \A i \in 1..Len(ms) : (MarkerOf(ms[i].payload) = "JobStart") <=> (i = 1)
     /\ \A i \in 1..Len(ms) : (MarkerOf(ms[i].payload) = "JobEnd") => (i = Len(ms))
     /\ \A i \in 1..(Len(ms) - 1) : ms[i].ts <= ms[i + 1].ts
     /\ \A i \in 1..Len(ms) :
          MarkerOf(ms[i].payload) = "ToolInvocation"
            => NamedCommand(ms[i].payload) \in CommandSet(known_codeql_commands)

Least(S) == CHOOSE i \in S : \A j \in S : i <= j

\* the position after the span of the item begun at position i of ms
SpanEnd(ms, i) ==
  Least({j \in (i + 1)..Len(ms) : MarkerOf(ms[j].payload) \in {"ItemBegin", "JobEnd"}}
        \cup {Len(ms) + 1})

ToolsOf(ms, i) ==
  {j \in (i + 1)..(SpanEnd(ms, i) - 1) : MarkerOf(ms[j].payload) = "ToolInvocation"}

DownloadOf(ms, i) ==
  IF ToolsOf(ms, i) = {} THEN 0 ELSE ms[Least(ToolsOf(ms, i))].ts - ms[i].ts

RECURSIVE SumOver(_, _)
SumOver(S, v) == IF S = {} THEN 0 ELSE LET x == CHOOSE x \in S : TRUE IN v[x] + SumOver(S \ {x}, v)

ItemsOf(ms) == {i \in 1..Len(ms) : MarkerOf(ms[i].payload) = "ItemBegin"}

C13_DownloadUntilFirstTool ==
  WellFormedPrefix(lines) =>
     LET ms == SelectSeq(lines, IsMarker)
     IN frame.download_time_s = SumOver(ItemsOf(ms), [i \in ItemsOf(ms) |-> DownloadOf(ms, i)])

C13_Witness ==
  /\ pc = "returned"
  /\ WellFormed(lines)
  /\ LET ms == SelectSeq(lines, IsMarker)
     IN /\ \E i \in ItemsOf(ms) : Cardinality(ToolsOf(ms, i)) >= 2
        /\ \E i \in ItemsOf(ms) : ToolsOf(ms, i) = {}
  /\ frame.download_time_s > 0
  /\ frame.download_time_s < frame.repo_time_s

(* C14: when a line is read without a raise while a command span is open:   *)
(* an Item-begin, Tool-invocation or Job-end adds (its timestamp - the      *)
(* span's start) to the total of the span's kind and to no other total, a   *)
(* Tool-invocation then opens the span of its own kind, and any other line  *)
(* leaves the span open and the totals as they are.                         *)
CommandOpen(f) == f.current_command # None /\ f.starting_command # None

ClosesCommand(k) == k \in {"ItemBegin", "ToolInvocation", "JobEnd"}

C14_CommandSpanClosedIntoItsKind ==
  [][ (Len(lines') = Len(lines) + 1 /\ CommandOpen(frame) /\ pc' = "reading") =>
        LET line == lines'[Len(lines')]
            k == MarkerOf(line.payload)
            c == Val(frame.current_command)
            old == frame.codeql_command_times_s
            new == frame'.codeql_command_times_s
        IN IF ClosesCommand(k)
           THEN /\ new[c] = old[c] + (line.ts - Val(frame.starting_command))
                /\ \A o \in DOMAIN old : o # c => new[o] = old[o]
                /\ IF k = "ToolInvocation"
                   THEN /\ frame'.current_command = Some(NamedCommand(line.payload))
                        /\ frame'.starting_command = Some(line.ts)
                   ELSE ~CommandOpen(frame')
           ELSE /\ new = old
                /\ frame'.current_command = frame.current_command
                /\ frame'.starting_command = frame.starting_command ]_vars

C14_Witness ==
  /\ pc = "reading"
  /\ Len(lines) >= 3
  /\ LastIsTool
  /\ MarkerOf(lines[Len(lines) - 1].payload) = "ToolInvocation"
  /\ NamedCommand(lines[Len(lines) - 1].payload) # NamedCommand(LastLine.payload)
  /\ frame.codeql_command_times_s[NamedCommand(lines[Len(lines) - 1].payload)] > 0
  /\ frame.codeql_command_times_s[NamedCommand(LastLine.payload)] = 0

(* C15: while get_timing_info reads the file, a command span is open only   *)
(* while an item span is open, and an item span is open only while the job  *)
(* span is open.                                                            *)
ItemOpen(f) == f.current_repo # None /\ f.starting_repo # None

JobOpen(f) == f.starting_job # None

C15_SpanNesting ==
  (pc = "reading") =>
     /\ CommandOpen(frame) => ItemOpen(frame)
     /\ ItemOpen(frame) => JobOpen(frame)

(* C16: once a Job-end marker has been processed, no line read after it     *)
(* adds to the item time, the per-item sequence, the download time or any   *)
(* command time.                                                            *)
C16_JobEndFinishesFile ==
  [][ (Idx(lines, "JobEnd") # {} /\ Len(lines') = Len(lines) + 1) =>
        /\ frame'.repo_time_s = frame.repo_time_s
        /\ frame'.repo_times = frame.repo_times
        /\ frame'.download_time_s = frame.download_time_s
        /\ frame'.codeql_command_times_s = frame.codeql_command_times_s ]_vars

(* C17: a Job-end marker read when no Item-begin came before it makes       *)
(* get_timing_info raise at that marker; no result is returned.             *)
JobEndBeforeItem(ls) ==
  \E i \in Idx(ls, "JobEnd") : \A j \in Idx(ls, "ItemBegin") : i < j

C17_JobEndWithoutItemIsFatal ==
  JobEndBeforeItem(lines) =>
     /\ pc = "raised"
     /\ exc = TypeError
     /\ MarkerOf(LastLine.payload) = "JobEnd"
     /\ Idx(lines, "ItemBegin") = {}

C17_Witness ==
  /\ JobEndBeforeItem(lines)
  /\ pc = "raised"
  /\ Idx(lines, "JobStart") # {}
  /\ Idx(lines, "ToolInvocation") # {}
  /\ \E c \in DOMAIN frame.codeql_command_times_s : frame.codeql_command_times_s[c] > 0

(* C18: reading a line that is none of the markers leaves every accumulator *)
(* and every open-span variable of get_timing_info unchanged, and the loop  *)
(* goes on.                                                                 *)
C18_UnmatchedLineIsSkipped ==
  [][ (Len(lines') = Len(lines) + 1 /\ ~IsMarker(lines'[Len(lines')])) =>
        (frame' = frame /\ pc' = "reading" /\ exc' = "none") ]_vars

C18_Witness ==
  /\ pc = "reading"
  /\ lines # <<>>
  /\ LastLine.payload = NoiseCommand
  /\ \E i \in 1..Len(lines) : lines[i].payload = NoiseItem
  /\ ItemOpen(frame)
  /\ frame.num_repos = 1
  /\ ~CommandOpen(frame)

(* C19 as stated: for a well-formed log with no Tool-invocation before the  *)
(* first Item-begin, download time plus all command times is at most the    *)
(* item time, with equality exactly when every item has a Tool-invocation.  *)
NoToolBeforeFirstItem(ms) ==
  \A j \in 1..Len(ms) :
     MarkerOf(ms[j].payload) = "ToolInvocation" => \E i \in ItemsOf(ms) : i < j

Attributed(f) ==
  f.download_time_s
    + SumOver(DOMAIN f.codeql_command_times_s, f.codeql_command_times_s)

ReturnedWellFormed ==
  /\ pc = "returned"
  /\ WellFormed(lines)
  /\ NoToolBeforeFirstItem(SelectSeq(lines, IsMarker))

C19_AttributedAtMostItemTime ==
  ReturnedWellFormed =>
     LET ms == SelectSeq(lines, IsMarker)
     IN /\ Attributed(frame) <= frame.repo_time_s
        /\ (Attributed(frame) = frame.repo_time_s)
             <=> (\A i \in ItemsOf(ms) : ToolsOf(ms, i) # {})

(* C19 amended: the same bound, with equality exactly when every item of    *)
(* non-zero duration has a Tool-invocation.                                 *)
DurationOf(ms, i) == ms[SpanEnd(ms, i)].ts - ms[i].ts

C19_AttributedAtMostItemTimeAmended ==
  ReturnedWellFormed =>
     LET ms == SelectSeq(lines, IsMarker)
     IN /\ Attributed(frame) <= frame.repo_time_s
        /\ (Attributed(frame) = frame.repo_time_s)
             <=> (\A i \in ItemsOf(ms) : DurationOf(ms, i) # 0 => ToolsOf(ms, i) # {})

C19_Witness ==
  /\ ReturnedWellFormed
  /\ LET ms == SelectSeq(lines, IsMarker)
     IN \E i \in ItemsOf(ms) : DurationOf(ms, i) = 0 /\ ToolsOf(ms, i) = {}
  /\ Attributed(frame) = frame.repo_time_s

(* C20: an Item-begin marker read before any Job-start marker makes         *)
(* get_timing_info raise at that marker; no result is returned for a log    *)
(* whose first Item-begin precedes Job-start.                               *)
ItemBeforeJobStart(ls) ==
  \E i \in Idx(ls, "ItemBegin") : \A j \in Idx(ls, "JobStart") : i < j

C20_ItemBeforeJobStartIsFatal ==
  ItemBeforeJobStart(lines) =>
     /\ pc = "raised"
     /\ exc = TypeError
     /\ Idx(lines, "ItemBegin") = {Len(lines)}
     /\ frame.num_repos = 0

C20_Witness ==
  /\ ItemBeforeJobStart(lines)
  /\ pc = "raised"
  /\ Len(lines) >= 3
  /\ CommandOpen(frame)
  /\ frame.current_repo = Some(RepoB)

====
